---------------------------- MODULE Spec2Model ----------------------------
(***************************************************************************)
(* The (7,4) Hamming codec of src/HW/第九周習題/5.py: bits_to_str,         *)
(* str_to_bits, hamming_encode, hamming_decode, and the driver of its      *)
(* __main__ block (parse a text, encode, receive, corrupt, decode,         *)
(* verify), generalised from the one text "1011" and the one corrupted     *)
(* position 5 to every text and every set of corrupted positions within    *)
(* the bounds.                                                             *)
(*                                                                         *)
(* A Python str is a sequence of one-character strings; a Python list of   *)
(* ints is a sequence of integers; a call either returns a value or raises *)
(* an exception, and is modelled by a record (Return / Raise).             *)
(***************************************************************************)
EXTENDS Integers, Sequences, FiniteSets, TLC

VARIABLES
    s,              \* the text handed to str_to_bits            (5.py:97)
    original_data,  \* original_data                             (5.py:97)
    encoded_word,   \* encoded_word                              (5.py:102)
    received_word,  \* received_word_ok / received_word_err      (5.py:108,123)
    flipped,        \* the positions error_sim_pos corrupted so far (5.py:124)
    decoded,        \* what the last hamming_decode call did     (5.py:111,134)
    recheck,        \* re-encode of the decoded data and its decode
    shown,          \* the last print: the bits handed to bits_to_str, its text
    reparsed,       \* what str_to_bits(shown) did
    exc,            \* the exception that ended the run, if any
    calls,          \* every hamming_encode / hamming_decode call made, in order
    pc,             \* the driver's position; "*_raised" where a call raised
    \* root_n of src/HW/hw4/.py
    coeffs,         \* coeffs, the coefficient list, highest power first
    x0,             \* x0, the initial guess
    n_iter,         \* n_iter
    x,              \* x, the current iterate
    iter,           \* how many passes of "for _ in range(n_iter)" have begun
    iterates,       \* every value x has held, in order
    root_ret,       \* what the call root_n(coeffs, x0, n_iter) did
    root_pc         \* the position in root_n

\* The variables of the Hamming driver.
hvars == << s, original_data, encoded_word, received_word, flipped, decoded,
            recheck, shown, reparsed, exc, calls, pc >>

\* The variables of root_n.
rootvars == << coeffs, x0, n_iter, x, iter, iterates, root_ret, root_pc >>

vars == << hvars, rootvars >>

(***************************************************************************)
(* Bounds of the model.                                                    *)
(***************************************************************************)
\* Longest input text (so lengths 3, 5 around 4 and 6, 8 around 7 occur).
MaxLen == 8
\* Largest digit character of an input text: 1 gives the texts of '0'/'1'.
MaxDigit == 1
\* Most positions the channel corrupts in one received word (7: every set).
MaxFlips == 7

\* Longest coefficient list given to root_n (degree MaxCoeffs - 1).
MaxCoeffs == 3
\* Largest absolute value of a coefficient.
MaxCoef == 1
\* Largest absolute value of the initial guess x0.
MaxX0 == 1
\* Largest n_iter.
MaxIter == 3
\* Largest numerator and denominator of an iterate from which the model
\* still computes the next Newton update.
MaxMag == 20

(***************************************************************************)
(* Program constants.                                                      *)
(***************************************************************************)
\* len(data_bits) != 4
DataLen == 4
\* len(codeword) != 7
CodeLen == 7

(***************************************************************************)
(* Outcomes of a call.                                                     *)
(* A raised exception carries its type and its message; the message is     *)
(* kept as the text (glossed in English) and the numerals written in it.   *)
(***************************************************************************)
Return(v) == [st |-> "ret", val |-> v, exc |-> "", text |-> "", nums |-> {}]

Raise(type, text, nums) ==
    [st |-> "raise", val |-> <<>>, exc |-> type, text |-> text, nums |-> nums]

NoCall == [st |-> "none", val |-> <<>>, exc |-> "", text |-> "", nums |-> {}]

(***************************************************************************)
(* Python's int ^ int on arbitrary-precision two's-complement integers.    *)
(***************************************************************************)
RECURSIVE XorNat(_, _)
XorNat(a, b) ==
    IF a = 0 THEN b
    ELSE IF b = 0 THEN a
    ELSE (((a % 2) + (b % 2)) % 2) + (2 * XorNat(a \div 2, b \div 2))

\* ~x == -x - 1, and  x ^ y == ~(~x ^ y) == ~x ^ ~y
Xor(a, b) ==
    IF a < 0 /\ b < 0 THEN XorNat(-a - 1, -b - 1)
    ELSE IF a < 0 THEN -XorNat(-a - 1, b) - 1
    ELSE IF b < 0 THEN -XorNat(a, -b - 1) - 1
    ELSE XorNat(a, b)

(***************************************************************************)
(* str(int) and int(str) on one character.                                 *)
(***************************************************************************)
DigitChars == << "0", "1", "2", "3", "4", "5", "6", "7", "8", "9" >>

RECURSIVE StrNat(_)
StrNat(n) ==
    IF n < 10 THEN << DigitChars[n + 1] >>
    ELSE StrNat(n \div 10) \o << DigitChars[(n % 10) + 1] >>

\* str(n) for an int n: the decimal digits, a leading '-' when negative
str(n) == IF n < 0 THEN << "-" >> \o StrNat(-n) ELSE StrNat(n)

IsDigit(c) == \E i \in 1..10 : DigitChars[i] = c

\* int(c) for a one-character string c that is a digit
int(c) == (CHOOSE i \in 1..10 : DigitChars[i] = c) - 1

(***************************************************************************)
(* bits_to_str(bits): "".join(map(str, bits))                              *)
(***************************************************************************)
\* Variant: " ".join in place of "".join.
RECURSIVE bits_to_str_spaced(_)
bits_to_str_spaced(bits) ==
    IF bits = <<>> THEN <<>>
    ELSE IF Tail(bits) = <<>> THEN str(Head(bits))
    ELSE str(Head(bits)) \o << " " >> \o bits_to_str_spaced(Tail(bits))

RECURSIVE bits_to_str(_)
bits_to_str(bits) ==
    IF bits = <<>> THEN <<>>
    ELSE str(Head(bits)) \o bits_to_str(Tail(bits))

(***************************************************************************)
(* str_to_bits(s): [int(b) for b in s]; int raises ValueError on a         *)
(* character that is no digit.                                             *)
(***************************************************************************)
str_to_bits(t) ==
    IF \E i \in 1..Len(t) : ~IsDigit(t[i])
    THEN Raise("ValueError", "invalid literal for int() with base 10", {10})
    ELSE Return([i \in 1..Len(t) |-> int(t[i])])

(***************************************************************************)
(* hamming_encode(data_bits)                                               *)
(***************************************************************************)
\* Variant: the message of hamming_decode pasted into hamming_encode.
EncodeLengthErrorPasted == Raise("ValueError", "the codeword must be 7 bits.", {7})

\* raise ValueError("資料必須是 4 位元。")  -- "the data must be 4 bits."
EncodeLengthError == Raise("ValueError", "the data must be 4 bits.", {4})

\* Variant: p3 computed over the bits of p2 (d1 in place of d2).
hamming_encode_p3_as_p2(data_bits) ==
    IF Len(data_bits) # DataLen THEN EncodeLengthError
    ELSE LET d1 == data_bits[1]
             d2 == data_bits[2]
             d3 == data_bits[3]
             d4 == data_bits[4]
             p1 == Xor(Xor(d1, d2), d4)
             p2 == Xor(Xor(d1, d3), d4)
             p3 == Xor(Xor(d1, d3), d4)
         IN  Return(<< p1, p2, d1, p3, d2, d3, d4 >>)

\* Variant: codeword is one module-level list that every call extends and
\* returns (the list the caller holds as encoded_word).
hamming_encode_shared_list(data_bits) ==
    IF Len(data_bits) # DataLen THEN EncodeLengthError
    ELSE LET d1 == data_bits[1]
             d2 == data_bits[2]
             d3 == data_bits[3]
             d4 == data_bits[4]
             p1 == Xor(Xor(d1, d2), d4)
             p2 == Xor(Xor(d1, d3), d4)
             p3 == Xor(Xor(d2, d3), d4)
         IN  Return(encoded_word \o << p1, p2, d1, p3, d2, d3, d4 >>)

hamming_encode(data_bits) ==
    IF Len(data_bits) # DataLen THEN EncodeLengthError
    ELSE LET d1 == data_bits[1]
             d2 == data_bits[2]
             d3 == data_bits[3]
             d4 == data_bits[4]
             p1 == Xor(Xor(d1, d2), d4)
             p2 == Xor(Xor(d1, d3), d4)
             p3 == Xor(Xor(d2, d3), d4)
         IN  Return(<< p1, p2, d1, p3, d2, d3, d4 >>)

(***************************************************************************)
(* hamming_decode(codeword)                                                *)
(***************************************************************************)
\* raise ValueError("碼字必須是 7 位元。")  -- "the codeword must be 7 bits."
DecodeLengthError == Raise("ValueError", "the codeword must be 7 bits.", {7})

\* Variant: s3 computed without d4_rec.
SyndromeS3WithoutD4(codeword) ==
    LET p1_rec == codeword[1]
        p2_rec == codeword[2]
        d1_rec == codeword[3]
        p3_rec == codeword[4]
        d2_rec == codeword[5]
        d3_rec == codeword[6]
        d4_rec == codeword[7]
    IN  << Xor(Xor(Xor(p1_rec, d1_rec), d2_rec), d4_rec),
           Xor(Xor(Xor(p2_rec, d1_rec), d3_rec), d4_rec),
           Xor(Xor(p3_rec, d2_rec), d3_rec) >>

\* The syndrome bits (s1, s2, s3) recomputed from the received word.
Syndrome(codeword) ==
    LET p1_rec == codeword[1]
        p2_rec == codeword[2]
        d1_rec == codeword[3]
        p3_rec == codeword[4]
        d2_rec == codeword[5]
        d3_rec == codeword[6]
        d4_rec == codeword[7]
    IN  << Xor(Xor(Xor(p1_rec, d1_rec), d2_rec), d4_rec),
           Xor(Xor(Xor(p2_rec, d1_rec), d3_rec), d4_rec),
           Xor(Xor(Xor(p3_rec, d2_rec), d3_rec), d4_rec) >>

\* Variant: the weights of s1 and s3 exchanged.
ErrorPosSwapped(syn) == (syn[1] * 4) + (syn[2] * 2) + (syn[3] * 1)

\* error_pos = (s3 * 4) + (s2 * 2) + (s1 * 1)
ErrorPos(syn) == (syn[3] * 4) + (syn[2] * 2) + (syn[1] * 1)

\* The data bits of the (corrected) word: indices 2, 4, 5, 6 (0-based).
ExtractData(corrected_codeword) ==
    << corrected_codeword[3], corrected_codeword[5],
       corrected_codeword[6], corrected_codeword[7] >>

\* Variant: corrected_codeword = codeword, the caller's list itself, in place
\* of the copy list(codeword).
DecodeListsAliased(codeword, error_pos) ==
    LET written == IF error_pos > 0 /\ error_pos <= Len(codeword)
                   THEN [codeword EXCEPT ![error_pos] = 1 - @]
                   ELSE codeword
    IN  [codeword |-> written, corrected_codeword |-> written]

\* The two lists of hamming_decode after lines 63-73: the caller's codeword
\* and the copy corrected_codeword = list(codeword), whose element at
\* error_index is the only one written.
DecodeLists(codeword, error_pos) ==
    LET copy == codeword
        written == IF error_pos > 0 /\ error_pos <= Len(copy)
                   THEN [copy EXCEPT ![error_pos] = 1 - @]
                   ELSE copy
    IN  [codeword |-> codeword, corrected_codeword |-> written]

\* Variant: the data taken from the received word, not from the corrected copy.
CorrectDiscarded(codeword, error_pos) ==
    IF error_pos > 0 /\ error_pos > Len(codeword)
    THEN Raise("IndexError", "list index out of range", {})
    ELSE Return(<< ExtractData(codeword), error_pos >>)

\* corrected_codeword = list(codeword), its bit at error_pos inverted when
\* error_pos > 0 (an index past the end raises IndexError), then the return
\* of the pair (corrected_data, error_pos).
Correct(codeword, error_pos) ==
    IF error_pos > 0
    THEN IF error_pos > Len(codeword)
         THEN Raise("IndexError", "list index out of range", {})
         ELSE LET corrected_codeword ==
                      DecodeLists(codeword, error_pos).corrected_codeword
              IN  Return(<< ExtractData(corrected_codeword), error_pos >>)
    ELSE Return(<< ExtractData(DecodeLists(codeword, error_pos).corrected_codeword),
                   error_pos >>)

\* Variant: only a word that is too short is rejected (< for !=).
hamming_decode_short_only(codeword) ==
    IF Len(codeword) < CodeLen THEN DecodeLengthError
    ELSE Correct(codeword, ErrorPos(Syndrome(codeword)))

hamming_decode(codeword) ==
    IF Len(codeword) # CodeLen THEN DecodeLengthError
    ELSE Correct(codeword, ErrorPos(Syndrome(codeword)))

\* The caller's list once hamming_decode(codeword) has returned or raised.
ArgAfterDecode(codeword) ==
    IF Len(codeword) # CodeLen THEN codeword
    ELSE DecodeLists(codeword, ErrorPos(Syndrome(codeword))).codeword

\* The caller's list once hamming_encode(data_bits) has returned or raised:
\* the function only reads it (d1, d2, d3, d4 = data_bits).
ArgAfterEncode(data_bits) == data_bits

(***************************************************************************)
(* The driver.                                                             *)
(***************************************************************************)
\* root_n is not called.
RootIdle ==
    /\ coeffs = <<>>
    /\ x0 = << 0, 1 >>
    /\ n_iter = 0
    /\ x = << 0, 1 >>
    /\ iter = 0
    /\ iterates = <<>>
    /\ root_ret = NoCall
    /\ root_pc = "idle"

\* One call: the function, its argument as passed, and what the call did.
Call(fn, arg, result) == [fn |-> fn, arg |-> arg, result |-> result]

\* print(... bits_to_str(bits) ...)
Show(bits) == [bits |-> bits, text |-> bits_to_str(bits)]

Chars == { DigitChars[i + 1] : i \in 0..MaxDigit }

Texts == UNION { [1..n -> Chars] : n \in 0..MaxLen }

Init ==
    /\ s \in Texts
    /\ original_data = <<>>
    /\ encoded_word = <<>>
    /\ received_word = <<>>
    /\ flipped = {}
    /\ decoded = NoCall
    /\ recheck = << NoCall, NoCall >>
    /\ shown = Show(<<>>)
    /\ reparsed = NoCall
    /\ exc = NoCall
    /\ calls = <<>>
    /\ pc = "start"
    /\ RootIdle

\* original_data = str_to_bits(...); print(bits_to_str(original_data))
ParseInput ==
    /\ UNCHANGED rootvars
    /\ pc = "start"
    /\ LET r == str_to_bits(s)
       IN  IF r.st = "raise"
           THEN /\ exc' = r
                /\ pc' = "parse_raised"
                /\ UNCHANGED << original_data, shown >>
           ELSE /\ original_data' = r.val
                /\ shown' = Show(r.val)
                /\ pc' = "parsed"
                /\ exc' = exc
    /\ UNCHANGED << s, encoded_word, received_word, flipped, decoded,
                    recheck, reparsed, calls >>

\* encoded_word = hamming_encode(original_data); print(bits_to_str(encoded_word))
Encode ==
    /\ UNCHANGED rootvars
    /\ pc = "parsed"
    /\ LET r == hamming_encode(original_data)
       IN  IF r.st = "raise"
           THEN /\ exc' = r
                /\ pc' = "encode_raised"
                /\ UNCHANGED << encoded_word, shown >>
           ELSE /\ encoded_word' = r.val
                /\ shown' = Show(r.val)
                /\ pc' = "encoded"
                /\ exc' = exc
    /\ original_data' = ArgAfterEncode(original_data)
    /\ calls' = Append(calls, Call("hamming_encode", original_data,
                                   hamming_encode(original_data)))
    /\ UNCHANGED << s, received_word, flipped, decoded, recheck, reparsed >>

\* received_word = list(encoded_word); print(bits_to_str(received_word))
Receive ==
    /\ UNCHANGED rootvars
    /\ pc = "encoded"
    /\ received_word' = encoded_word
    /\ shown' = Show(encoded_word)
    /\ pc' = "received"
    /\ UNCHANGED << s, original_data, encoded_word, flipped, decoded,
                    recheck, reparsed, exc, calls >>

\* received_word_err[error_sim_idx] = 1 - received_word_err[error_sim_idx]
Flip(error_sim_pos) ==
    /\ UNCHANGED rootvars
    /\ pc = "received"
    /\ error_sim_pos \notin flipped
    /\ Cardinality(flipped) < MaxFlips
    /\ received_word' = [received_word EXCEPT ![error_sim_pos] = 1 - @]
    /\ flipped' = flipped \cup {error_sim_pos}
    /\ shown' = Show(received_word')
    /\ UNCHANGED << s, original_data, encoded_word, decoded, recheck,
                    reparsed, exc, calls, pc >>

\* A word that arrives as text and is decoded as it is.
ReceiveRaw ==
    /\ UNCHANGED rootvars
    /\ pc = "parsed"
    /\ received_word' = original_data
    /\ shown' = Show(original_data)
    /\ pc' = "raw"
    /\ UNCHANGED << s, original_data, encoded_word, flipped, decoded,
                    recheck, reparsed, exc, calls >>

\* decoded_data, err_pos = hamming_decode(received_word); print(bits_to_str(decoded_data))
Decode ==
    /\ UNCHANGED rootvars
    /\ pc \in {"received", "raw"}
    /\ LET r == hamming_decode(received_word)
       IN  /\ decoded' = r
           /\ IF r.st = "raise"
              THEN /\ exc' = r
                   /\ pc' = "decode_raised"
                   /\ shown' = shown
              ELSE /\ shown' = Show(r.val[1])
                   /\ pc' = IF pc = "raw" THEN "rawdecoded" ELSE "decoded"
                   /\ exc' = exc
    /\ received_word' = ArgAfterDecode(received_word)
    /\ calls' = Append(calls, Call("hamming_decode", received_word,
                                   hamming_decode(received_word)))
    /\ UNCHANGED << s, original_data, encoded_word, flipped, recheck, reparsed >>

\* assert err_pos_detected == error_sim_pos; assert original_data == decoded_data
Verify ==
    /\ UNCHANGED rootvars
    /\ pc = "decoded"
    /\ Cardinality(flipped) <= 1
    /\ IF /\ original_data = decoded.val[1]
          /\ \A p \in flipped : decoded.val[2] = p
       THEN pc' = "verified" /\ exc' = exc
       ELSE pc' = "assert_raised" /\ exc' = Raise("AssertionError", "", {})
    /\ UNCHANGED << s, original_data, encoded_word, received_word, flipped,
                    decoded, recheck, shown, reparsed, calls >>

\* Decode, re-encode the recovered data, decode again.
Recheck ==
    /\ UNCHANGED rootvars
    /\ pc \in {"decoded", "rawdecoded"}
    /\ LET e == hamming_encode(decoded.val[1])
       IN  IF e.st = "ret"
           THEN /\ recheck' = << e, hamming_decode(e.val) >>
                /\ calls' = calls \o
                       << Call("hamming_encode", decoded.val[1], e),
                          Call("hamming_decode", e.val, hamming_decode(e.val)) >>
           ELSE /\ recheck' = << e, NoCall >>
                /\ calls' = Append(calls, Call("hamming_encode", decoded.val[1], e))
    /\ pc' = "rechecked"
    /\ UNCHANGED << s, original_data, encoded_word, received_word, flipped,
                    decoded, shown, reparsed, exc >>

\* The printed text parsed back to bits.
Reparse ==
    /\ UNCHANGED rootvars
    /\ pc \in {"parsed", "encoded", "received", "raw", "decoded", "rawdecoded"}
    /\ reparsed' = str_to_bits(shown.text)
    /\ pc' = "reparsed"
    /\ UNCHANGED << s, original_data, encoded_word, received_word, flipped,
                    decoded, recheck, shown, exc, calls >>

Next ==
    \/ ParseInput
    \/ Encode
    \/ Receive
    \/ \E error_sim_pos \in 1..CodeLen : Flip(error_sim_pos)
    \/ ReceiveRaw
    \/ Decode
    \/ Verify
    \/ Recheck
    \/ Reparse

Spec == Init /\ [][Next]_vars

(***************************************************************************)
(* The same driver started on texts of exactly 4 or 7 digits, one digit    *)
(* more than in Init: elements that are not bits reach hamming_encode and  *)
(* hamming_decode.                                                         *)
(***************************************************************************)
WideChars == { DigitChars[i + 1] : i \in 0..(MaxDigit + 1) }

InitNonBit ==
    /\ s \in [1..DataLen -> WideChars] \cup [1..CodeLen -> WideChars]
    /\ original_data = <<>>
    /\ encoded_word = <<>>
    /\ received_word = <<>>
    /\ flipped = {}
    /\ decoded = NoCall
    /\ recheck = << NoCall, NoCall >>
    /\ shown = Show(<<>>)
    /\ reparsed = NoCall
    /\ exc = NoCall
    /\ calls = <<>>
    /\ pc = "start"
    /\ RootIdle

SpecNonBit == InitNonBit /\ [][Next]_vars

(***************************************************************************)
(* root_n(coeffs, x0, n_iter) of src/HW/hw4/.py: Newton's method on a      *)
(* polynomial.  A number is an exact fraction << numerator, denominator >> *)
(* in lowest terms with a positive denominator: the real axis of the       *)
(* program's complex numbers (real coefficients and a real x0 keep the     *)
(* imaginary part 0), without the rounding of floating point.              *)
(***************************************************************************)
Abs(a) == IF a < 0 THEN -a ELSE a

\* The element of a one-element set: a value computed once and then named.
The(S) == CHOOSE v \in S : TRUE

RECURSIVE GCD(_, _)
GCD(a, b) == IF b = 0 THEN a ELSE The({ GCD(b, r) : r \in { a % b } })

\* The fraction n / d (d # 0) in lowest terms.
Rat(n, d) ==
    The({ IF v < 0 THEN << (-u) \div g, (-v) \div g >> ELSE << u \div g, v \div g >> :
          << u, v, g >> \in { << n, d, GCD(Abs(n), Abs(d)) >> } })

\* An int coefficient as a number.
Num(c) == << c, 1 >>

\* a * b
RatMul(a, b) ==
    The({ Rat((a[1] \div g1) * (b[1] \div g2), (a[2] \div g2) * (b[2] \div g1)) :
          g1 \in { GCD(Abs(a[1]), b[2]) }, g2 \in { GCD(Abs(b[1]), a[2]) } })

\* a + b
RatAdd(a, b) ==
    The({ Rat((a[1] * (l \div a[2])) + (b[1] * (l \div b[2])), l) :
          l \in { (a[2] \div GCD(a[2], b[2])) * b[2] } })

\* a - b
RatSub(a, b) == RatAdd(a, << -b[1], b[2] >>)

\* a / b for b # 0 (b == 0 raises ZeroDivisionError, see RootIterate)
RatDiv(a, b) ==
    RatMul(a, IF b[1] < 0 THEN << -b[2], -b[1] >> ELSE << b[2], b[1] >>)

\* res = 0; for c in cs: res = res * x + c
RECURSIVE Horner(_, _, _)
Horner(cs, xx, res) ==
    IF cs = <<>> THEN res
    ELSE The({ Horner(Tail(cs), xx, v) :
                 v \in { RatAdd(m, Num(Head(cs))) : m \in { RatMul(res, xx) } } })

\* f(x): the polynomial at x
f(cs, xx) == Horner(cs, xx, Num(0))

\* deriv_coeffs = [(len(coeffs) - 1 - i) * coeffs[i] for i in range(len(coeffs) - 1)]
deriv_coeffs(cs) == [j \in 1..(Len(cs) - 1) |-> (Len(cs) - j) * cs[j]]

\* df(x): the derivative at x
df(cs, xx) == Horner(deriv_coeffs(cs), xx, Num(0))

\* Variant: the test made on fx in place of dfx.
BreakTestOnFx(fx, dfx) == fx[1] = 0

\* if dfx == 0: break
BreakTest(fx, dfx) == dfx[1] = 0

CoeffLists == UNION { [1..n -> (-MaxCoef)..MaxCoef] : n \in 0..MaxCoeffs }

\* The call root_n(coeffs, x0, n_iter), after "x = x0".
RootInit ==
    /\ s = <<>>
    /\ original_data = <<>>
    /\ encoded_word = <<>>
    /\ received_word = <<>>
    /\ flipped = {}
    /\ decoded = NoCall
    /\ recheck = << NoCall, NoCall >>
    /\ shown = Show(<<>>)
    /\ reparsed = NoCall
    /\ exc = NoCall
    /\ calls = <<>>
    /\ pc = "idle"
    /\ coeffs \in CoeffLists
    /\ x0 \in { Num(v) : v \in (-MaxX0)..MaxX0 }
    /\ n_iter \in 0..MaxIter
    /\ x = x0
    /\ iter = 0
    /\ iterates = << x0 >>
    /\ root_ret = NoCall
    /\ root_pc = "loop"

\* The model computes an update only from an iterate this small.
WithinMag(xx) == Abs(xx[1]) <= MaxMag /\ xx[2] <= MaxMag

\* One pass of the loop body: fx = f(x); dfx = df(x); break when dfx == 0,
\* otherwise x = x - fx / dfx (a division by 0 raises ZeroDivisionError).
RootIterate ==
    /\ UNCHANGED hvars
    /\ root_pc = "loop"
    /\ iter < n_iter
    /\ WithinMag(x)
    /\ iter' = iter + 1
    /\ \E fx \in { f(coeffs, x) }, dfx \in { df(coeffs, x) } :
           IF BreakTest(fx, dfx)
           THEN /\ root_pc' = "break"
                /\ UNCHANGED << x, iterates, root_ret >>
           ELSE IF dfx[1] = 0
           THEN /\ root_pc' = "raised"
                /\ root_ret' = Raise("ZeroDivisionError", "division by zero", {})
                /\ UNCHANGED << x, iterates >>
           ELSE /\ \E q \in { RatDiv(fx, dfx) } : x' = RatSub(x, q)
                /\ iterates' = Append(iterates, x')
                /\ UNCHANGED << root_pc, root_ret >>
    /\ UNCHANGED << coeffs, x0, n_iter >>

\* The iterate is too large for the model: the run is followed no further.
RootCut ==
    /\ UNCHANGED hvars
    /\ root_pc = "loop"
    /\ iter < n_iter
    /\ ~WithinMag(x)
    /\ root_pc' = "cut"
    /\ UNCHANGED << coeffs, x0, n_iter, x, iter, iterates, root_ret >>

\* return x, after the break or after the last pass
RootReturn ==
    /\ UNCHANGED hvars
    /\ \/ root_pc = "break"
       \/ root_pc = "loop" /\ iter = n_iter
    /\ root_ret' = Return(x)
    /\ root_pc' = "done"
    /\ UNCHANGED << coeffs, x0, n_iter, x, iter, iterates >>

RootNext ==
    \/ RootIterate
    \/ RootCut
    \/ RootReturn

\* The interpreter runs the loop on: a step that can be taken is taken.
SpecRoot == RootInit /\ [][RootNext]_vars /\ WF_vars(RootNext)

(***************************************************************************)
(* Properties.                                                             *)
(***************************************************************************)
Bit == {0, 1}

IsBits(w) == \A i \in 1..Len(w) : w[i] \in Bit

\* Sum modulo 2: the parity of bits, stated without the program's ^.
Parity3(a, b, c) == (a + b + c) % 2

Parity4(a, b, c, d) == (a + b + c + d) % 2

\* hamming_encode was called on original_data (it returned or it raised).
EncodeCalled == encoded_word # <<>> \/ pc = "encode_raised"

\* hamming_decode was called on received_word (it returned or it raised).
DecodeCalled == decoded.st # "none"

\* The word sent was corrupted in exactly the positions F before the decode.
DecodedAfterFlips(F) ==
    /\ DecodeCalled
    /\ encoded_word # <<>>
    /\ flipped = F

\* C1: single-bit-error correction: for every 4-bit data word d and every
\* position p in 1..7, hamming_decode of hamming_encode(d) with the bit at
\* position p inverted returns exactly (d, p).
C1_SingleBitErrorCorrected ==
    \A p \in 1..CodeLen :
        ( /\ IsBits(original_data)
          /\ DecodedAfterFlips({p})
          /\ received_word = [encoded_word EXCEPT ![p] = 1 - @] )
        => decoded = Return(<< original_data, p >>)

C1_Witness ==
    /\ original_data = << 1, 0, 1, 1 >>
    /\ DecodedAfterFlips({5})
    /\ received_word = << 0, 1, 1, 0, 1, 1, 1 >>
    /\ decoded = Return(<< << 1, 0, 1, 1 >>, 5 >>)

\* C2: round trip without corruption: for every 4-bit data word d,
\* hamming_decode(hamming_encode(d)) returns (d, 0).
C2_RoundTripNoCorruption ==
    ( /\ IsBits(original_data)
      /\ DecodedAfterFlips({})
      /\ received_word = encoded_word )
    => decoded = Return(<< original_data, 0 >>)

C2_Witness ==
    /\ original_data = << 1, 0, 1, 1 >>
    /\ DecodedAfterFlips({})
    /\ decoded = Return(<< << 1, 0, 1, 1 >>, 0 >>)

\* C3: for every 4-bit data word (d1,d2,d3,d4) hamming_encode returns exactly
\* the 7 bits (p1, p2, d1, p3, d2, d3, d4) with p1 = d1 xor d2 xor d4,
\* p2 = d1 xor d3 xor d4, p3 = d2 xor d3 xor d4: the data bits unchanged at
\* positions 3, 5, 6, 7 and every element 0 or 1.
C3_EncodeLayout ==
    ( /\ EncodeCalled
      /\ Len(original_data) = DataLen
      /\ IsBits(original_data) )
    => LET d == original_data
       IN  /\ pc # "encode_raised"
           /\ Len(encoded_word) = CodeLen
           /\ IsBits(encoded_word)
           /\ encoded_word = << Parity3(d[1], d[2], d[4]),
                                Parity3(d[1], d[3], d[4]),
                                d[1],
                                Parity3(d[2], d[3], d[4]),
                                d[2], d[3], d[4] >>

C3_Witness ==
    /\ pc = "encoded"
    /\ original_data = << 1, 1, 0, 1 >>
    /\ encoded_word = << 1, 0, 1, 0, 1, 0, 1 >>

\* C4 as stated: the data word 1011 (d1=1, d2=0, d3=1, d4=1) encodes to the
\* codeword 0111011, i.e. p1=0, p2=1, d1=1, p3=1, d2=0, d3=1, d4=1.
C4_KnownExampleAsStated ==
    ( /\ EncodeCalled
      /\ s = << "1", "0", "1", "1" >> )
    => /\ original_data = << 1, 0, 1, 1 >>
       /\ encoded_word = << 0, 1, 1, 1, 0, 1, 1 >>

\* C4: the known example: the data word 1011 (d1=1, d2=0, d3=1, d4=1)
\* encodes to the codeword 0110011, i.e. p1=0, p2=1, d1=1, p3=0, d2=0, d3=1,
\* d4=1 (p3 = d2 xor d3 xor d4 = 0), and is printed as the text "0110011".
C4_KnownExample ==
    ( /\ EncodeCalled
      /\ s = << "1", "0", "1", "1" >> )
    => /\ original_data = << 1, 0, 1, 1 >>
       /\ pc # "encode_raised"
       /\ encoded_word = << 0, 1, 1, 0, 0, 1, 1 >>
       /\ pc = "encoded" => shown.text = << "0", "1", "1", "0", "0", "1", "1" >>

C4_Witness ==
    /\ pc = "encoded"
    /\ s = << "1", "0", "1", "1" >>
    /\ encoded_word = << 0, 1, 1, 0, 0, 1, 1 >>
    /\ shown.text = << "0", "1", "1", "0", "0", "1", "1" >>

\* C5: invalid length rejection: hamming_encode on a bit sequence whose
\* length is not 4 raises the length error (ValueError) and returns no
\* codeword; hamming_decode on a bit sequence whose length is not 7 raises
\* the length error (ValueError) and returns no data or error position.
C5_InvalidLengthRejected ==
    /\ ( EncodeCalled /\ Len(original_data) # DataLen )
       => /\ pc = "encode_raised"
          /\ exc.st = "raise"
          /\ exc.exc = "ValueError"
          /\ encoded_word = <<>>
    /\ ( DecodeCalled /\ Len(received_word) # CodeLen )
       => /\ pc = "decode_raised"
          /\ decoded.st = "raise"
          /\ decoded.exc = "ValueError"
          /\ decoded.val = <<>>
          /\ exc = decoded

\* hamming_decode rejected an 8-bit word.
C5_Witness ==
    /\ pc = "decode_raised"
    /\ received_word = << 1, 0, 1, 1, 0, 1, 0, 1 >>
    /\ decoded.exc = "ValueError"

\* hamming_encode rejected a 3-bit word.
C5_WitnessEncode ==
    /\ pc = "encode_raised"
    /\ original_data = << 1, 0, 1 >>
    /\ exc.exc = "ValueError"

\* A call rejected its input for its length: the expected length, the
\* actual length and the exception raised.
LengthRejections ==
    ( IF pc = "encode_raised"
      THEN { << DataLen, Len(original_data), exc >> } ELSE {} )
    \cup
    ( IF DecodeCalled /\ decoded.st = "raise" /\ decoded.exc = "ValueError"
      THEN { << CodeLen, Len(received_word), decoded >> } ELSE {} )

\* C6 as stated: when hamming_encode or hamming_decode rejects an input for
\* its length, the diagnostic of the error identifies both the expected
\* length (4 or 7) and the actual length of the input.
C6_DiagnosticAsStated ==
    \A r \in LengthRejections :
        /\ r[1] \in r[3].nums
        /\ r[2] \in r[3].nums

\* C6: when hamming_encode or hamming_decode rejects an input for its
\* length, the diagnostic of the error is a fixed text that identifies the
\* expected length only (4 for encode, 7 for decode); the actual length of
\* the input is not in it.
C6_DiagnosticExpectedOnly ==
    \A r \in LengthRejections :
        /\ r[3].st = "raise"
        /\ r[3].nums = { r[1] }
        /\ r[2] \notin r[3].nums
        /\ r[3].text = IF r[1] = DataLen THEN "the data must be 4 bits."
                                         ELSE "the codeword must be 7 bits."

C6_Witness ==
    /\ pc = "encode_raised"
    /\ Len(original_data) = 5
    /\ exc.nums = {4}

\* C7: hamming_decode is total over the 128 7-bit words: for each it raises
\* no error and returns exactly 4 bits together with an error position in
\* 0..7 equal to s3*4 + s2*2 + s1 for the syndrome bits recomputed from the
\* received word.
C7_DecodeTotal ==
    ( /\ DecodeCalled
      /\ Len(received_word) = CodeLen
      /\ IsBits(received_word) )
    => LET w  == received_word
           s1 == Parity4(w[1], w[3], w[5], w[7])
           s2 == Parity4(w[2], w[3], w[6], w[7])
           s3 == Parity4(w[4], w[5], w[6], w[7])
       IN  /\ pc # "decode_raised"
           /\ decoded.st = "ret"
           /\ Len(decoded.val) = 2
           /\ Len(decoded.val[1]) = DataLen
           /\ IsBits(decoded.val[1])
           /\ decoded.val[2] \in 0..7
           /\ decoded.val[2] = (s3 * 4) + (s2 * 2) + s1

\* A word that is no codeword, decoded as it arrived.
C7_Witness ==
    /\ pc = "rawdecoded"
    /\ received_word = << 1, 1, 1, 1, 1, 1, 0 >>
    /\ decoded.st = "ret"
    /\ decoded.val[2] = 7

\* C8: two-bit corruption is silently miscorrected: for every 4-bit data
\* word d and every two distinct positions p, q in 1..7, the decode of
\* hamming_encode(d) with the bits at p and q inverted raises no error,
\* reports a nonzero error position and returns a data word other than d.
C8_TwoBitMiscorrected ==
    \A p, q \in 1..CodeLen :
        ( /\ p # q
          /\ IsBits(original_data)
          /\ DecodedAfterFlips({p, q})
          /\ received_word = [encoded_word EXCEPT ![p] = 1 - @, ![q] = 1 - @] )
        => /\ pc # "decode_raised"
           /\ decoded.st = "ret"
           /\ decoded.val[2] # 0
           /\ decoded.val[1] # original_data

\* Two parity bits corrupted: the decoder inverts the data bit d1.
C8_Witness ==
    /\ original_data = << 1, 0, 1, 1 >>
    /\ DecodedAfterFlips({1, 2})
    /\ decoded = Return(<< << 0, 0, 1, 1 >>, 3 >>)

\* C9: idempotent no-op on already-corrected input: for every 7-bit word w
\* whose decode reports error position 0, with d the decoded data,
\* hamming_encode(d) is w and its decode is (d, 0) again.
C9_IdempotentNoOp ==
    ( /\ pc = "rechecked"
      /\ Len(received_word) = CodeLen
      /\ IsBits(received_word)
      /\ decoded.st = "ret"
      /\ decoded.val[2] = 0 )
    => /\ recheck[1] = Return(received_word)
       /\ recheck[2] = Return(<< decoded.val[1], 0 >>)
       /\ recheck[2] = decoded

C9_Witness ==
    /\ pc = "rechecked"
    /\ received_word = << 0, 1, 1, 0, 0, 1, 1 >>
    /\ decoded = Return(<< << 1, 0, 1, 1 >>, 0 >>)
    /\ recheck[2] = decoded

\* C10: the textual form round-trips exactly: for every string s of the
\* characters '0' and '1' (the empty string too) bits_to_str(str_to_bits(s))
\* is s, and for every sequence b of bits str_to_bits(bits_to_str(b)) is b.
C10_TextRoundTrip ==
    /\ ( /\ pc \in {"parsed", "parse_raised"}
         /\ \A i \in 1..Len(s) : s[i] \in {"0", "1"} )
       => /\ pc = "parsed"
          /\ shown.bits = original_data
          /\ IsBits(original_data)
          /\ Len(original_data) = Len(s)
          /\ shown.text = s
    /\ ( pc = "reparsed" /\ IsBits(shown.bits) )
       => reparsed = Return(shown.bits)

\* The received word 0110111 printed and parsed back.
C10_Witness ==
    /\ pc = "reparsed"
    /\ s = << "1", "0", "1", "1" >>
    /\ flipped = {5}
    /\ shown.text = << "0", "1", "1", "0", "1", "1", "1" >>
    /\ reparsed = Return(<< 0, 1, 1, 0, 1, 1, 1 >>)

\* C11: hamming_encode rejects with the length error every input that is
\* not exactly 4 bits, each 0 or 1, a 4-element input with an element
\* outside {0, 1} too, and never returns a codeword holding a non-bit value.
C11_NonBitRejected ==
    /\ ( EncodeCalled /\ ~(Len(original_data) = DataLen /\ IsBits(original_data)) )
       => /\ pc = "encode_raised"
          /\ exc.exc = "ValueError"
    /\ IsBits(encoded_word)

\* The word w with exactly the bits at the positions F inverted.
FlipAll(w, F) == [i \in 1..Len(w) |-> IF i \in F THEN 1 - w[i] ELSE w[i]]

\* The word handed to hamming_decode, as it was before the call.
WordBeforeDecode ==
    IF encoded_word # <<>> THEN FlipAll(encoded_word, flipped) ELSE original_data

\* C12: inputs are never mutated: after any call hamming_decode(w), a call
\* that corrects a bit (error position > 0) too, the caller's list w holds
\* the elements it held before the call, and after hamming_encode(d) the
\* caller's list d is unchanged.
C12_InputsNotMutated ==
    /\ DecodeCalled => received_word = WordBeforeDecode
    /\ EncodeCalled => original_data = str_to_bits(s).val

\* A decode that corrected position 5 left the received word 0110111 alone.
C12_Witness ==
    /\ DecodeCalled
    /\ flipped = {5}
    /\ decoded = Return(<< << 1, 0, 1, 1 >>, 5 >>)
    /\ received_word = << 0, 1, 1, 0, 1, 1, 1 >>

C14_OneCorrectionThenExtract ==
    ( /\ DecodeCalled
      /\ Len(received_word) = CodeLen
      /\ IsBits(received_word) )
    => /\ decoded.st = "ret"
       /\ LET w == received_word
              e == decoded.val[2]
              d == decoded.val[1]
              at(k) == IF e = k THEN 1 - w[k] ELSE w[k]
          IN  /\ d = << at(3), at(5), at(6), at(7) >>
              /\ e \in {0, 1, 2, 4} => d = << w[3], w[5], w[6], w[7] >>
              /\ e \in {3, 5, 6, 7}
                 => Cardinality({ k \in 1..DataLen :
                        d[k] # << w[3], w[5], w[6], w[7] >>[k] }) = 1

\* The word 0000010, decoded as it arrived: position 6 (d3) is inverted.
C14_Witness ==
    /\ pc = "rawdecoded"
    /\ received_word = << 0, 0, 0, 0, 0, 1, 0 >>
    /\ decoded = Return(<< << 0, 0, 0, 0 >>, 6 >>)

\* The 16 codewords hamming_encode produces.
Codewords == { hamming_encode(d).val : d \in [1..DataLen -> Bit] }

\* The positions in which two words of the same length differ.
Diff(a, b) == { i \in 1..Len(a) : a[i] # b[i] }

\* C15: every received word is corrected to a valid codeword: for each
\* 7-bit word w with hamming_decode(w) = (d, e), hamming_encode(d) is w when
\* e = 0 and differs from w in exactly the position e when e > 0; so e = 0
\* exactly when w is one of the 16 codewords of hamming_encode.
C15_CorrectedToCodeword ==
    ( /\ pc = "rechecked"
      /\ Len(received_word) = CodeLen
      /\ IsBits(received_word) )
    => /\ decoded.st = "ret"
       /\ recheck[1].st = "ret"
       /\ Len(recheck[1].val) = CodeLen
       /\ LET e == decoded.val[2]
              c == recheck[1].val
          IN  /\ e = 0 => c = received_word
              /\ e > 0 => Diff(c, received_word) = {e}
              /\ (e = 0) <=> (received_word \in Codewords)
       /\ Cardinality(Codewords) = 16

\* 1111110 is no codeword: it is corrected at position 7 to 1111111.
C15_Witness ==
    /\ pc = "rechecked"
    /\ received_word = << 1, 1, 1, 1, 1, 1, 0 >>
    /\ decoded.val[2] = 7
    /\ recheck[1] = Return(<< 1, 1, 1, 1, 1, 1, 1 >>)

\* The bitwise exclusive or of the positions in F (1..7, three binary
\* digits): digit k is the parity of the number of positions having it.
PosXor(F) ==
    LET digit(k) == Cardinality({ p \in F : (p \div (2 ^ k)) % 2 = 1 }) % 2
    IN  digit(0) + (2 * digit(1)) + (4 * digit(2))

\* C16: the reported error position depends on the error pattern only: for
\* every data word d and every set F of positions in 1..7, the decode of
\* hamming_encode(d) with exactly the bits in F inverted reports the
\* bitwise exclusive or of the positions in F (0 for the empty set, and 0
\* for a three-bit error whose positions cancel).
C16_PositionIsXorOfFlips ==
    ( /\ IsBits(original_data)
      /\ DecodedAfterFlips(flipped)
      /\ received_word = FlipAll(encoded_word, flipped) )
    => /\ decoded.st = "ret"
       /\ decoded.val[2] = PosXor(flipped)

\* The three-bit error at positions 1, 2, 3 is reported as no error.
C16_Witness ==
    /\ original_data = << 1, 0, 1, 1 >>
    /\ DecodedAfterFlips({1, 2, 3})
    /\ decoded.st = "ret"
    /\ decoded.val[2] = 0

\* C17: hamming_encode is injective with minimum distance 3: the codewords
\* of two distinct 4-bit data words differ in at least 3 of the 7 positions.
\* (The two data words are the one sent and the one decoded: every pair of
\* data words occurs, as every 7-bit word is received.)
C17_MinimumDistance3 ==
    ( /\ pc = "rechecked"
      /\ encoded_word # <<>>
      /\ IsBits(original_data)
      /\ decoded.st = "ret"
      /\ decoded.val[1] # original_data )
    => /\ recheck[1].st = "ret"
       /\ Len(recheck[1].val) = CodeLen
       /\ Cardinality(Diff(encoded_word, recheck[1].val)) >= 3

\* encode(1011) = 0110011 and encode(0011) = 1000011 differ in exactly 3.
C17_Witness ==
    /\ pc = "rechecked"
    /\ original_data = << 1, 0, 1, 1 >>
    /\ encoded_word = << 0, 1, 1, 0, 0, 1, 1 >>
    /\ decoded.val[1] = << 0, 0, 1, 1 >>
    /\ recheck[1] = Return(<< 1, 0, 0, 0, 0, 1, 1 >>)
    /\ Cardinality(Diff(encoded_word, recheck[1].val)) = 3

\* What holds of root_n at every moment: no division by zero, at most
\* n_iter passes and updates, every update made from an iterate whose
\* derivative is not 0, and the value returned is the current iterate: the
\* one after exactly n_iter updates, or else the first one whose
\* derivative is 0.
RootSafe ==
    LET updates == Len(iterates) - 1
    IN  /\ root_pc # "raised"
        /\ iter <= n_iter
        /\ updates <= iter
        /\ iterates[1] = x0
        /\ x = iterates[Len(iterates)]
        /\ \A j \in 1..updates :
              /\ df(coeffs, iterates[j])[1] # 0
              /\ iterates[j + 1] =
                     RatSub(iterates[j], RatDiv(f(coeffs, iterates[j]),
                                                df(coeffs, iterates[j])))
        /\ root_pc = "break" => df(coeffs, x)[1] = 0
        /\ root_pc = "done"
           => /\ root_ret = Return(x)
              /\ \/ updates = n_iter
                 \/ updates < n_iter /\ df(coeffs, x)[1] = 0
        /\ (Len(coeffs) <= 1 /\ root_pc = "done") => root_ret = Return(x0)

\* C18: root_n always terminates and never divides by zero: for any
\* coefficient list (a constant or empty polynomial too) and any
\* n_iter >= 0 it makes at most n_iter Newton updates, stops at the first
\* iterate whose derivative evaluates to 0 and returns it unchanged, and
\* otherwise returns the value after exactly n_iter updates.
C18_RootTerminatesSafely ==
    /\ []RootSafe
    /\ <>(root_pc \in {"done", "cut"})

\* x^2 + 1 from x0 = 1: one update to 0, where the derivative is 0.
C18_Witness ==
    /\ root_pc = "done"
    /\ coeffs = << 1, 0, 1 >>
    /\ x0 = << 1, 1 >>
    /\ n_iter = 3
    /\ iterates = << << 1, 1 >>, << 0, 1 >> >>
    /\ root_ret = Return(<< 0, 1 >>)

=============================================================================
